---------------------------- MODULE Spec2Model ----------------------------
(***************************************************************************)
(* A model of forecast.py: the forecast merger (ForecastPeriod.merge,      *)
(* merge_forecasts), the charge planner (get_charge_plan) and the loop of  *)
(* main that plans each date and pushes a complete plan to Home Assistant. *)
(*                                                                         *)
(* Units.  Instants and durations are whole minutes.  Power is whole kW.   *)
(* Energy is kept in kW*minutes, i.e. kWh * ONE_HOUR, so that the hour     *)
(* fraction period/ONE_HOUR needs no fractions.  Percentages are whole:    *)
(* the battery capacities drawn divide 50 and the period durations drawn   *)
(* are multiples of 30 minutes, which makes every division below exact.    *)
(* Arithmetic is exact where the program uses binary floating point.       *)
(* An ISO-8601 instant or duration of an entry is held as the minutes it   *)
(* parses to.  An Optional value is <<>> (None) or <<v>>.                  *)
(***************************************************************************)
EXTENDS Integers, Sequences, FiniteSets, TLC

VARIABLES FLAGS, sources, forecast_json, i, result, pc,
          todo, planned, cur, loc, fr, ha_calls

vars == <<FLAGS, sources, forecast_json, i, result, pc,
          todo, planned, cur, loc, fr, ha_calls>>

---------------------------------------------------------------------------
(* Bounds of the model *)

MaxSources == 2
MaxEntries == 2
MaxTotal == 3
MaxPeriods == 7
SlotsPerDay == 4

(* Program constants *)

ONE_HOUR == 60
GRACE == 5
DayMinutes == 1440

None == <<>>
Some(v) == <<v>>

Max(a, b) == IF a >= b THEN a ELSE b

---------------------------------------------------------------------------
(* Input domains *)

\* End instant of the k-th half-hourly interval of the model's horizon.
PeriodEnd(k) == ((k - 1) \div SlotsPerDay) * DayMinutes + 600 + ((k - 1) % SlotsPerDay) * 30

Periods == {30, 60}

\* <<pv_estimate10, pv_estimate, pv_estimate90>> in kW
Bands == {<<0, 0, 0>>, <<1, 2, 2>>, <<4, 6, 8>>}
MergeBands == {<<1, 2, 2>>, <<4, 6, 8>>}

Entry(end, per, b) ==
  [period_end |-> end, period |-> per,
   pv_estimate10 |-> b[1], pv_estimate |-> b[2], pv_estimate90 |-> b[3]]

MergeEnds == {PeriodEnd(1), PeriodEnd(SlotsPerDay + 1)}
MergeEntries == {Entry(e, p, b) : e \in MergeEnds, p \in Periods, b \in MergeBands}

SeqsUpTo(S, n) == UNION {[1..k -> S] : k \in 0..n}

RECURSIVE TotalLen(_)
TotalLen(fs) == IF fs = <<>> THEN 0 ELSE Len(Head(fs)) + TotalLen(Tail(fs))

RECURSIVE SumSeq(_)
SumSeq(ls) == IF ls = <<>> THEN 0 ELSE Head(ls) + SumSeq(Tail(ls))

\* The ways to cut n entries into 1..MaxSources sources of 0..MaxEntries each.
Cuts(n) ==
  {ls \in SeqsUpTo(0..MaxEntries, MaxSources) : Len(ls) >= 1 /\ SumSeq(ls) = n}

RECURSIVE CutAt(_, _)
CutAt(es, ls) ==
  IF ls = <<>> THEN <<>>
  ELSE <<SubSeq(es, 1, Head(ls))>>
       \o CutAt(SubSeq(es, Head(ls) + 1, Len(es)), Tail(ls))

\* Every list of 1..MaxSources sources of 0..MaxEntries entries each, with
\* at most MaxTotal entries in all.
MergeInputs ==
  UNION {{CutAt(es, ls) : ls \in Cuts(Len(es))} :
           es \in SeqsUpTo(MergeEntries, MaxTotal)}

\* The flags' defaults in whole numbers, and each of three flags changed.
DefaultFlags ==
  [battery_capacity |-> 10, inverter_capacity_dc |-> 3, target_max |-> 90,
   min_reserve |-> 10, charge_buffer |-> 10, ha_url |-> FALSE]

Configs ==
  {[f EXCEPT !.ha_url = h] :
     f \in {DefaultFlags,
            [DefaultFlags EXCEPT !.battery_capacity = 25],
            [DefaultFlags EXCEPT !.min_reserve = 95],
            [DefaultFlags EXCEPT !.charge_buffer = -30]},
     h \in BOOLEAN}

NowVals == {0, PeriodEnd(1) - 10, PeriodEnd(2) + 10, PeriodEnd(MaxPeriods) + 100}

\* A second source of zero or one entry that lands on the first interval.
Extras ==
  {<<>>} \cup {<< <<Entry(PeriodEnd(1), p, <<1, 2, 2>>)>> >> : p \in Periods}

Profile(n, per, bs) == [k \in 1..n |-> Entry(PeriodEnd(k), per, bs[k])]

---------------------------------------------------------------------------
(* ForecastPeriod *)

ForecastPeriod(entry) ==
  [period_end |-> entry.period_end, period |-> entry.period,
   p10_kw |-> entry.pv_estimate10, p50_kw |-> entry.pv_estimate,
   p90_kw |-> entry.pv_estimate90]

MergeConflict_EndOnly(self, other) == self.period_end # other.period_end

MergeConflict(self, other) ==
  self.period_end # other.period_end \/ self.period # other.period

\* ForecastPeriod.merge: the record self is left as, and whether it raised.
Merge(self, other) ==
  IF self = other THEN [raised |-> FALSE, fp |-> self]
  ELSE IF MergeConflict(self, other) THEN [raised |-> TRUE, fp |-> self]
  ELSE [raised |-> FALSE,
        fp |-> [self EXCEPT !.p10_kw = @ + other.p10_kw,
                            !.p50_kw = @ + other.p50_kw,
                            !.p90_kw = @ + other.p90_kw]]

P90ExcessKwh_NoFloor(fp) == (fp.p90_kw - FLAGS.inverter_capacity_dc) * fp.period

\* In kWh * ONE_HOUR: max(0, p90_kw - C) * period        (= kWh * 60)
P90ExcessKwh(fp) == Max(0, fp.p90_kw - FLAGS.inverter_capacity_dc) * fp.period

P90AvailKwh(fp) == Max(0, FLAGS.inverter_capacity_dc - fp.p90_kw) * fp.period

---------------------------------------------------------------------------
(* merge_forecasts *)

DateOf(end) == end \div DayMinutes

\* The entries in the order of the two nested loops, each with its source.
RECURSIVE FlatFrom(_, _)
FlatFrom(fs, n) ==
  IF fs = <<>> THEN <<>>
  ELSE [k \in 1..Len(Head(fs)) |-> [src |-> n, entry |-> Head(fs)[k]]]
       \o FlatFrom(Tail(fs), n + 1)

Flat(fs) == FlatFrom(fs, 1)

\* One pass of the inner loop body on the mapping res (date -> end -> record).
MergeEntry(res, entry) ==
  LET fp == ForecastPeriod(entry)
      d == DateOf(fp.period_end)
      periods == IF d \in DOMAIN res THEN res[d] ELSE <<>>
      stored == IF fp.period_end \in DOMAIN periods
                THEN periods[fp.period_end] ELSE fp
      m == Merge(stored, fp)
      periods2 == (fp.period_end :> m.fp) @@ periods
  IN  [raised |-> m.raised, result |-> (d :> periods2) @@ res]

RECURSIVE MergeFold(_, _)
MergeFold(res, es) ==
  IF es = <<>> THEN [raised |-> FALSE, result |-> res]
  ELSE LET m == MergeEntry(res, Head(es).entry)
       IN  IF m.raised THEN m ELSE MergeFold(m.result, Tail(es))

MergeForecasts(fs) == MergeFold(<<>>, Flat(fs))

---------------------------------------------------------------------------
(* State *)

NoPlan ==
  [expected_excess |-> 0, discharge_start_time |-> None,
   discharge_target |-> None, target_reserve_time |-> None,
   clean_backup_time |-> None]

NoLocals ==
  [excess_kwh |-> 0, target_discharge_pct |-> 0, kwh_to_discharge |-> 0,
   first_excess_idx |-> None, target_reserve_time |-> None,
   clean_backup_time |-> None, discharge_start_time |-> None]

Start(cfg, S, fj) ==
  /\ FLAGS = cfg
  /\ sources = S
  /\ forecast_json = fj
  /\ i = 1
  /\ result = <<>>
  /\ pc = "start"
  /\ todo = <<>>
  /\ planned = <<>>
  /\ cur = None
  /\ loc = NoLocals
  /\ fr = NoPlan
  /\ ha_calls = <<>>

\* main: one profile source, optionally a second source.
Init ==
  \E cfg \in Configs, n \in 1..MaxPeriods, per \in Periods, x \in Extras :
    \E bs \in [1..n -> Bands] :
      Start(cfg, <<Profile(n, per, bs)>> \o x, <<Profile(n, per, bs)>> \o x)

\* merge_forecasts alone: any sources, fed once or twice over.
InitMerge ==
  \E cfg \in Configs, S \in MergeInputs, twice \in BOOLEAN :
    /\ cfg = DefaultFlags
    /\ Start(cfg, S, IF twice THEN S \o S ELSE S)

---------------------------------------------------------------------------
(* merge_forecasts, one entry per step *)

MergeBegin ==
  /\ pc = "start"
  /\ pc' = "merging"
  /\ UNCHANGED <<FLAGS, sources, forecast_json, i, result, todo, planned,
                 cur, loc, fr, ha_calls>>

MergeStep ==
  /\ pc = "merging"
  /\ i <= Len(Flat(forecast_json))
  /\ LET m == MergeEntry(result, Flat(forecast_json)[i].entry)
     IN  /\ ~m.raised
         /\ result' = m.result
  /\ i' = i + 1
  /\ UNCHANGED <<FLAGS, sources, forecast_json, pc, todo, planned,
                 cur, loc, fr, ha_calls>>

MergeRaise ==
  /\ pc = "merging"
  /\ i <= Len(Flat(forecast_json))
  /\ LET m == MergeEntry(result, Flat(forecast_json)[i].entry)
     IN  /\ m.raised
         /\ result' = m.result
  /\ pc' = "raised"
  /\ UNCHANGED <<FLAGS, sources, forecast_json, i, todo, planned,
                 cur, loc, fr, ha_calls>>

MergeReturn ==
  /\ pc = "merging"
  /\ i > Len(Flat(forecast_json))
  /\ pc' = "merged"
  /\ UNCHANGED <<FLAGS, sources, forecast_json, i, result, todo, planned,
                 cur, loc, fr, ha_calls>>

NextMerge == MergeBegin \/ MergeStep \/ MergeRaise \/ MergeReturn

SpecMerge == InitMerge /\ [][NextMerge]_vars

---------------------------------------------------------------------------
(* DailyForecast and get_charge_plan *)

RECURSIVE SortAscending(_)
SortAscending(S) ==
  IF S = {} THEN <<>>
  ELSE LET m == CHOOSE x \in S : \A y \in S : x <= y
       IN  <<m>> \o SortAscending(S \ {m})

RECURSIVE SortDescending(_)
SortDescending(S) ==
  IF S = {} THEN <<>>
  ELSE LET m == CHOOSE x \in S : \A y \in S : x >= y
       IN  <<m>> \o SortDescending(S \ {m})

\* sorted(df.periods.values(), key=period_end); periods maps end -> record
SortedPeriods(periods) ==
  LET ends == SortAscending(DOMAIN periods)
  IN  [k \in 1..Len(ends) |-> periods[ends[k]]]

SortedDates_Descending(res) == SortDescending(DOMAIN res)

\* sorted(forecasts.values(), key=period_date), as the dates in that order
SortedDates(res) == SortAscending(DOMAIN res)

RECURSIVE SumExcess(_)
SumExcess(sp) ==
  IF sp = <<>> THEN 0 ELSE P90ExcessKwh(Head(sp)) + SumExcess(Tail(sp))

\* DailyForecast.p90_excess_kwh, in kWh * ONE_HOUR
DailyP90ExcessKwh(periods) == SumExcess(SortedPeriods(periods))

\* (excess_kwh / battery_capacity) * 100
ExcessPct(excess_kwh) ==
  (excess_kwh * 100) \div (FLAGS.battery_capacity * ONE_HOUR)

TargetDischargePct_NoFloor(excess_pct) ==
  FLAGS.target_max - excess_pct - FLAGS.charge_buffer

TargetDischargePct(excess_pct) ==
  Max(FLAGS.min_reserve, FLAGS.target_max - excess_pct - FLAGS.charge_buffer)

\* ((target_max - target_discharge_pct) / 100) * battery_capacity, * ONE_HOUR
KwhToDischarge(target_discharge_pct) ==
  ((FLAGS.target_max - target_discharge_pct) * FLAGS.battery_capacity * ONE_HOUR)
    \div 100

\* The forward loop from index idx on (indices are 1-based here).
RECURSIVE ForwardFrom(_, _, _, _)
ForwardFrom(sp, idx, first, reserve) ==
  IF idx > Len(sp)
  THEN [first_excess_idx |-> first, target_reserve_time |-> reserve,
        clean_backup_time |-> None]
  ELSE IF first = None /\ P90ExcessKwh(sp[idx]) > 0
  THEN ForwardFrom(sp, idx + 1, Some(idx), Some(sp[idx].period_end))
  ELSE IF first # None /\ P90ExcessKwh(sp[idx]) = 0
  THEN [first_excess_idx |-> first, target_reserve_time |-> reserve,
        clean_backup_time |-> Some(sp[idx].period_end)]
  ELSE ForwardFrom(sp, idx + 1, first, reserve)

ForwardScan_AnyZero(sp) ==
  LET f == ForwardFrom(sp, 1, None, None)
      zeros == {k \in 1..Len(sp) : P90ExcessKwh(sp[k]) = 0}
  IN  IF f.clean_backup_time = None /\ zeros # {}
      THEN [f EXCEPT !.clean_backup_time =
              Some(sp[CHOOSE k \in zeros : \A j \in zeros : k <= j].period_end)]
      ELSE f

ForwardScan(sp) == ForwardFrom(sp, 1, None, None)

\* The backward loop over reversed(sorted_periods[:first_excess_idx]),
\* about to visit index k with kwh_discharged accumulated so far.
RECURSIVE BackwardFrom(_, _, _, _)
BackwardFrom(sp, k, kwh_discharged, kwh_to_discharge) ==
  IF k < 1 THEN None
  ELSE LET d == kwh_discharged + P90AvailKwh(sp[k])
       IN  IF d >= kwh_to_discharge
           THEN Some(sp[k].period_end - sp[k].period)
           ELSE BackwardFrom(sp, k - 1, d, kwh_to_discharge)

RECURSIVE BackwardFrom_Strict(_, _, _, _)
BackwardFrom_Strict(sp, k, kwh_discharged, kwh_to_discharge) ==
  IF k < 1 THEN None
  ELSE LET d == kwh_discharged + P90AvailKwh(sp[k])
       IN  IF d > kwh_to_discharge
           THEN Some(sp[k].period_end - sp[k].period)
           ELSE BackwardFrom_Strict(sp, k - 1, d, kwh_to_discharge)

BackwardScan_Strict(sp, first, kwh_to_discharge) ==
  BackwardFrom_Strict(sp, first - 1, 0, kwh_to_discharge)

BackwardScan(sp, first, kwh_to_discharge) ==
  BackwardFrom(sp, first - 1, 0, kwh_to_discharge)

\* get_charge_plan up to the read of the clock: its local variables.
ScanPlan(periods) ==
  LET excess_kwh == DailyP90ExcessKwh(periods)
      target == TargetDischargePct(ExcessPct(excess_kwh))
      need == KwhToDischarge(target)
      sp == SortedPeriods(periods)
      f == ForwardScan(sp)
  IN  [excess_kwh |-> excess_kwh, target_discharge_pct |-> target,
       kwh_to_discharge |-> need,
       first_excess_idx |-> f.first_excess_idx,
       target_reserve_time |-> f.target_reserve_time,
       clean_backup_time |-> f.clean_backup_time,
       discharge_start_time |->
         IF f.first_excess_idx = None THEN None
         ELSE BackwardScan(sp, f.first_excess_idx[1], need)]

\* The rest of get_charge_plan, with the clock reading now.
ClampPlan(l, now) ==
  IF l.first_excess_idx = None
  THEN [expected_excess |-> l.excess_kwh, discharge_start_time |-> None,
        discharge_target |-> Some(l.target_discharge_pct),
        target_reserve_time |-> None, clean_backup_time |-> None]
  ELSE [expected_excess |-> l.excess_kwh,
        discharge_start_time |->
          IF l.discharge_start_time # None /\ l.discharge_start_time[1] < now
          THEN Some(now + GRACE) ELSE l.discharge_start_time,
        discharge_target |-> Some(l.target_discharge_pct),
        target_reserve_time |-> l.target_reserve_time,
        clean_backup_time |-> l.clean_backup_time]

PlanComplete_NoBackup(r) ==
  /\ r.discharge_start_time # None
  /\ r.target_reserve_time # None
  /\ r.discharge_target # None

\* The test main makes before it pushes a plan.
PlanComplete(r) ==
  /\ r.discharge_start_time # None
  /\ r.target_reserve_time # None
  /\ r.clean_backup_time # None
  /\ r.discharge_target # None

---------------------------------------------------------------------------
(* main.  A push is recorded as <<entity_id, argument>>, the argument as
   the Optional value main passes (round() of a whole number is itself). *)

MainMerge ==
  /\ pc = "start"
  /\ LET m == MergeForecasts(forecast_json)
     IN  /\ ~m.raised
         /\ result' = m.result
         /\ todo' = SortedDates(m.result)
  /\ pc' = "loop"
  /\ UNCHANGED <<FLAGS, sources, forecast_json, i, planned, cur, loc, fr,
                 ha_calls>>

MainMergeRaise ==
  /\ pc = "start"
  /\ LET m == MergeForecasts(forecast_json)
     IN  /\ m.raised
         /\ result' = m.result
  /\ pc' = "raised"
  /\ UNCHANGED <<FLAGS, sources, forecast_json, i, todo, planned, cur, loc,
                 fr, ha_calls>>

\* An iteration whose plan has no excess: get_charge_plan returns early.
PlanZero ==
  /\ pc = "loop"
  /\ todo # <<>>
  /\ DailyP90ExcessKwh(result[Head(todo)]) = 0
  /\ fr' = NoPlan
  /\ cur' = Some(Head(todo))
  /\ planned' = Append(planned, Head(todo))
  /\ todo' = Tail(todo)
  /\ UNCHANGED <<FLAGS, sources, forecast_json, i, result, pc, loc, ha_calls>>

\* An iteration with excess: get_charge_plan up to the read of the clock.
PlanScan ==
  /\ pc = "loop"
  /\ todo # <<>>
  /\ DailyP90ExcessKwh(result[Head(todo)]) # 0
  /\ loc' = ScanPlan(result[Head(todo)])
  /\ cur' = Some(Head(todo))
  /\ planned' = Append(planned, Head(todo))
  /\ todo' = Tail(todo)
  /\ pc' = "scanned"
  /\ UNCHANGED <<FLAGS, sources, forecast_json, i, result, fr, ha_calls>>

PlanClamp ==
  /\ pc = "scanned"
  /\ \E now \in NowVals : fr' = ClampPlan(loc, now)
  /\ pc' = "planned"
  /\ UNCHANGED <<FLAGS, sources, forecast_json, i, result, todo, planned,
                 cur, loc, ha_calls>>

MainPush ==
  /\ pc = "planned"
  /\ FLAGS.ha_url
  /\ PlanComplete(fr)
  /\ ha_calls' =
       << <<"pwrcell_forecast_discharge_start", fr.discharge_start_time>>,
          <<"pwrcell_forecast_max_reserve_start", fr.target_reserve_time>>,
          <<"pwrcell_forecast_clean_backup_start", fr.clean_backup_time>>,
          <<"pwrcell_forecast_discharge_target", fr.discharge_target>>,
          <<"pwrcell_forecast_max_reserve_target", Some(FLAGS.target_max)>> >>
  /\ pc' = "done"
  /\ UNCHANGED <<FLAGS, sources, forecast_json, i, result, todo, planned,
                 cur, loc, fr>>

MainPartial ==
  /\ pc = "planned"
  /\ FLAGS.ha_url
  /\ ~PlanComplete(fr)
  /\ pc' = "done"
  /\ UNCHANGED <<FLAGS, sources, forecast_json, i, result, todo, planned,
                 cur, loc, fr, ha_calls>>

MainNoHa ==
  /\ pc = "planned"
  /\ ~FLAGS.ha_url
  /\ pc' = "done"
  /\ UNCHANGED <<FLAGS, sources, forecast_json, i, result, todo, planned,
                 cur, loc, fr, ha_calls>>

MainExhausted ==
  /\ pc = "loop"
  /\ todo = <<>>
  /\ pc' = "done"
  /\ UNCHANGED <<FLAGS, sources, forecast_json, i, result, todo, planned,
                 cur, loc, fr, ha_calls>>

Next ==
  \/ MainMerge \/ MainMergeRaise
  \/ PlanZero \/ PlanScan \/ PlanClamp
  \/ MainPush \/ MainPartial \/ MainNoHa \/ MainExhausted

Spec == Init /\ [][Next]_vars

---------------------------------------------------------------------------
(* Properties of merge_forecasts, under SpecMerge *)

FlatInput == Flat(forecast_json)

Stored(end) == result[DateOf(end)][end]

SameEnd(a) ==
  {c \in 1..Len(FlatInput) :
     FlatInput[c].entry.period_end = FlatInput[a].entry.period_end}

\* C1: after merge_forecasts, two entries of different sources with the same
\* interval end and duration (and no third entry on that end) leave a stored
\* record whose p10, p50 and p90 are the sums of the two entries' values,
\* whatever the values, identical ones included; an entry alone on its
\* interval end is stored with its own values.
C1_MergeSumsExactly ==
  (pc = "merged" /\ forecast_json = sources) =>
    \A a \in 1..Len(FlatInput), b \in 1..Len(FlatInput) :
      LET ea == FlatInput[a].entry
          eb == FlatInput[b].entry
          st == Stored(ea.period_end)
      IN  /\ ( /\ a < b
               /\ FlatInput[a].src # FlatInput[b].src
               /\ ea.period_end = eb.period_end
               /\ ea.period = eb.period
               /\ SameEnd(a) = {a, b} )
             => /\ st.p10_kw = ea.pv_estimate10 + eb.pv_estimate10
                /\ st.p50_kw = ea.pv_estimate + eb.pv_estimate
                /\ st.p90_kw = ea.pv_estimate90 + eb.pv_estimate90
          /\ SameEnd(a) = {a}
             => /\ st.p10_kw = ea.pv_estimate10
                /\ st.p50_kw = ea.pv_estimate
                /\ st.p90_kw = ea.pv_estimate90

\* C2: merge_forecasts of the sources fed twice over (S ++ S) yields the same
\* Daily Aggregates as merge_forecasts of S.
C2_MergeIdempotent ==
  (pc = "merged" /\ forecast_json = sources \o sources) =>
    result = MergeForecasts(sources).result

\* The entry about to be merged lands on a stored record of another duration.
DurationClash ==
  /\ i <= Len(FlatInput)
  /\ LET e == FlatInput[i].entry
         d == DateOf(e.period_end)
     IN  /\ d \in DOMAIN result
         /\ e.period_end \in DOMAIN result[d]
         /\ result[d][e.period_end].period # e.period

\* C3: merging an entry whose interval end is that of a stored record but
\* whose duration differs always raises, with the mapping (and so the stored
\* record's three estimates) left as it was, and merge_forecasts, once it has
\* raised, never returns a mapping.
C3_ConflictRaisesUnchanged ==
  [][ /\ (pc = "merging" /\ DurationClash) => (pc' = "raised" /\ result' = result)
      /\ pc = "raised" => pc' = "raised" ]_vars

C3_Witness == pc = "raised" /\ DurationClash

---------------------------------------------------------------------------
(* Properties of get_charge_plan and main, under Spec *)

\* fr is the plan of the date cur
HasPlan == pc \in {"loop", "planned", "done"} /\ cur # None

CurPeriods == result[cur[1]]

Ceiling == FLAGS.inverter_capacity_dc

ExcessEnds(d) == {e \in DOMAIN result[d] : result[d][e].p90_kw > Ceiling}

FirstExcessEnd ==
  CHOOSE e \in ExcessEnds(cur[1]) : \A x \in ExcessEnds(cur[1]) : e <= x

\* The interval ends of the periods before the first excess period.
Before == {e \in DOMAIN CurPeriods : e < FirstExcessEnd}

AvailOf(p) == IF p.p90_kw < Ceiling THEN (Ceiling - p.p90_kw) * p.period ELSE 0

RECURSIVE Headroom(_)
Headroom(E) ==
  IF E = {} THEN 0
  ELSE LET e == CHOOSE x \in E : TRUE
       IN  AvailOf(CurPeriods[e]) + Headroom(E \ {e})

\* C4: when every period's p90 is at most the inverter ceiling the plan has
\* expected excess 0 and no discharge_start_time, discharge_target,
\* target_reserve_time or clean_backup_time; a plan with non-zero expected
\* excess has a discharge_target.
C4_NoExcessPlanEmpty ==
  HasPlan =>
    /\ (\A e \in DOMAIN CurPeriods : CurPeriods[e].p90_kw <= Ceiling)
         => /\ fr.expected_excess = 0
            /\ fr.discharge_start_time = None
            /\ fr.discharge_target = None
            /\ fr.target_reserve_time = None
            /\ fr.clean_backup_time = None
    /\ fr.expected_excess # 0 => fr.discharge_target # None

C4_Witness ==
  /\ HasPlan
  /\ \A e \in DOMAIN CurPeriods : CurPeriods[e].p90_kw <= Ceiling
  /\ \E e \in DOMAIN CurPeriods : CurPeriods[e].p90_kw > 0

\* C5 as claimed: for every configuration a plan with non-zero excess has
\* min_reserve <= discharge_target <= target_max.
C5_TargetInRange ==
  (HasPlan /\ fr.expected_excess # 0) =>
    /\ fr.discharge_target # None
    /\ FLAGS.min_reserve <= fr.discharge_target[1]
    /\ fr.discharge_target[1] <= FLAGS.target_max

SaneConfig ==
  /\ FLAGS.min_reserve <= FLAGS.target_max
  /\ FLAGS.charge_buffer >= 0
  /\ FLAGS.battery_capacity > 0

\* C5 as amended: a plan with non-zero excess has discharge_target >=
\* min_reserve, and discharge_target <= target_max when min_reserve <=
\* target_max, charge_buffer >= 0 and battery_capacity > 0.
C5_TargetInRangeAmended ==
  (HasPlan /\ fr.expected_excess # 0) =>
    /\ fr.discharge_target # None
    /\ FLAGS.min_reserve <= fr.discharge_target[1]
    /\ SaneConfig => fr.discharge_target[1] <= FLAGS.target_max

C5_Witness ==
  /\ HasPlan /\ fr.expected_excess # 0 /\ SaneConfig
  /\ fr.discharge_target # None
  /\ FLAGS.min_reserve < fr.discharge_target[1]
  /\ fr.discharge_target[1] < FLAGS.target_max

\* C6: in every plan, whatever the clock read, a discharge_start_time is
\* earlier than target_reserve_time, and target_reserve_time is not later
\* than clean_backup_time when both are present.
C6_TimesOrdered ==
  HasPlan =>
    /\ fr.discharge_start_time # None
         => /\ fr.target_reserve_time # None
            /\ fr.discharge_start_time[1] < fr.target_reserve_time[1]
    /\ (fr.target_reserve_time # None /\ fr.clean_backup_time # None)
         => fr.target_reserve_time[1] <= fr.clean_backup_time[1]

\* The case of C7: excess, and too little headroom before the excess block.
ShortOfHeadroom ==
  /\ HasPlan
  /\ fr.expected_excess # 0
  /\ Headroom(Before) < loc.kwh_to_discharge

\* C7 as claimed: with excess and less headroom before the first excess
\* period than kwh_to_discharge, discharge_start_time is absent and expected
\* excess, discharge_target, target_reserve_time and clean_backup_time are
\* all populated.
C7_PartialPlanPopulated ==
  ShortOfHeadroom =>
    /\ fr.discharge_start_time = None
    /\ fr.discharge_target # None
    /\ fr.target_reserve_time # None
    /\ fr.clean_backup_time # None

\* C7 as amended: in that case discharge_start_time is absent, discharge_target
\* is populated, target_reserve_time is the end of the first excess period,
\* and clean_backup_time is populated exactly when a period after the first
\* excess period has no excess.
C7_PartialPlanAmended ==
  ShortOfHeadroom =>
    /\ fr.discharge_start_time = None
    /\ fr.discharge_target # None
    /\ fr.target_reserve_time = Some(FirstExcessEnd)
    /\ fr.clean_backup_time # None
         <=> \E e \in DOMAIN CurPeriods :
               e > FirstExcessEnd /\ CurPeriods[e].p90_kw <= Ceiling

C7_Witness ==
  /\ ShortOfHeadroom
  /\ Before # {}
  /\ fr.clean_backup_time = None
  /\ fr.target_reserve_time # None

\* C8: Home Assistant is pushed to only for a plan with non-zero excess whose
\* discharge_start_time, target_reserve_time, clean_backup_time and
\* discharge_target are all present, and with that plan's values.
C8_PushOnlyComplete ==
  ha_calls # <<>> =>
    /\ HasPlan
    /\ fr.expected_excess # 0
    /\ fr.discharge_start_time # None
    /\ fr.target_reserve_time # None
    /\ fr.clean_backup_time # None
    /\ fr.discharge_target # None
    /\ \A k \in 1..Len(ha_calls) : ha_calls[k][2] # None
    /\ ha_calls[1][2] = fr.discharge_start_time
    /\ ha_calls[2][2] = fr.target_reserve_time
    /\ ha_calls[3][2] = fr.clean_backup_time
    /\ ha_calls[4][2] = fr.discharge_target

C8_Witness == ha_calls # <<>> /\ pc = "done"

\* The periods before the excess block from which the headroom up to the
\* block reaches kwh_to_discharge.
Reaching ==
  {e \in Before :
     Headroom({q \in Before : q >= e}) >= loc.kwh_to_discharge}

LatestReaching == CHOOSE e \in Reaching : \A x \in Reaching : e >= x

\* C9: before the clamp, discharge_start_time is the start of the latest
\* period before the first excess period from which the headroom summed up
\* to the first excess period is at least kwh_to_discharge, and it is absent
\* exactly when there is no such period.
C9_BackwardScanLatest ==
  pc = "scanned" =>
    loc.discharge_start_time =
      IF Reaching = {} THEN None
      ELSE Some(LatestReaching - CurPeriods[LatestReaching].period)

C9_Witness ==
  /\ pc = "scanned"
  /\ Reaching # {}
  /\ \E e \in Before : e > LatestReaching
  /\ \E e \in Before : e < LatestReaching

HasExcess(d) == ExcessEnds(d) # {}

PlannedSet == {planned[k] : k \in 1..Len(planned)}

\* The dates main is to visit: each date with no excess date before it.
UpToFirstExcess ==
  {d \in DOMAIN result : \A x \in DOMAIN result : x < d => ~HasExcess(x)}

\* C10: main plans the dates in ascending order, up to and including the
\* earliest date with excess and none after it, whether or not that date's
\* plan is complete; what it pushes is the plan of that earliest date.
C10_StopsAtFirstExcess ==
  pc \in {"loop", "scanned", "planned", "done"} =>
    /\ \A k \in 1..(Len(planned) - 1) : planned[k] < planned[k + 1]
    /\ PlannedSet \subseteq UpToFirstExcess
    /\ \A d \in UpToFirstExcess :
         d \in PlannedSet \/ (pc = "loop" /\ \A x \in PlannedSet : x < d)
    /\ pc = "done" => PlannedSet = UpToFirstExcess
    /\ ha_calls # <<>> =>
         /\ HasExcess(cur[1])
         /\ \A x \in DOMAIN result : HasExcess(x) => cur[1] <= x

C10_Witness ==
  /\ pc = "done"
  /\ FLAGS.ha_url
  /\ ha_calls = <<>>
  /\ cur # None
  /\ HasExcess(cur[1])
  /\ \E x \in DOMAIN result : x > cur[1] /\ HasExcess(x)

=============================================================================
